---- MODULE Spec2Model ----
(***************************************************************************)
(* State-machine model of the interview bot's voice session services:      *)
(*   - ElevenLabsService (WebSocket session, reconnect policy, audio chunk *)
(*     buffer, sendMessage)                                                *)
(*   - ConversationService (session lifecycle around the SDK conversation) *)
(* Every handler of the source is one action; handlers are written as      *)
(* functions on a record of the service fields and applied to the          *)
(* variables by Apply.                                                     *)
(***************************************************************************)
EXTENDS Integers, Sequences, FiniteSets, TLC

(* ---------------- bounds of the model ---------------- *)
MaxSockets == 2
MaxCalls == 2
MaxChunks == 2
MaxEventId == 1
MaxDelayed == 1
MaxSessions == 2
MaxEnds == 1
MaxTranscript == 5
MaxRecords == 2
MaxFileNames == 2

(* ---------------- program constants ---------------- *)
maxReconnectAttempts == 3
QuietThresholdMs == 500
PollIntervalMs == 100
NormalClosure == 1000
ReconnectBaseDelayMs == 1000
ReconnectMaxDelayMs == 5000
retryCount == 3
retryDelay == 1000

VARIABLES
  ws,                  \* this.ws: 0 = null, else the socket object
  sock,                \* the WebSocket objects created so far and their closures
  connectionPromise,   \* this.connectionPromise: 0 = null, else the socket whose promise it is
  isInitialized,
  useConversationalAI,
  isReconnecting,
  reconnectAttempts,
  delayed,             \* reconnect() calls sleeping in their backoff delay
  calls,               \* the sendMessage calls and the promise each returned
  currentResolve,      \* 0 = null, else the call whose resolve function it holds
  currentReject,
  msgTimers,           \* calls whose 30 s response timer is still scheduled
  messageTimeout,      \* this.messageTimeout: 0 = null, else the call whose timer handle it stores
  audioChunks,
  timeSinceLastChunk,  \* Date.now() - this.lastChunkTime, saturated at the quiet threshold
  chunkTimeout,        \* {} = no poll timer scheduled, {d} = fires in d ms
  attemptsMade,        \* observation: reconnect attempts since the last successful open
  lastFlush,           \* observation: the flush made by the last step (arrival order, emitted bytes)
  cleared,             \* observation: clearConversation() has been called
  lastInterruption,    \* observation: the interruption event handled by the last step
  delays,              \* observation: the backoff delays of the attempts since the last open
  lastPing,            \* observation: the ping handled by the last step and the pongs it sent
  \* ---- ConversationService ----
  conversation,        \* 0 = null, else the SDK session object startSession returned
  conversationId,      \* 0 = null, else the id of that session
  isInitializing,
  isActive,
  isPaused,
  transcript,          \* the text, as the sequence of the pieces appended to it
  currentUserResponse, \* "" or the last recognized speech
  sdk,                 \* the SDK sessions: "none", "live", "ending", "ended"
  initPc,              \* where the running initialize() call is
  initSession,         \* the session that call asked startSession for, 0 = none
  initResult,          \* observation: how an initialize() call ended in the last step
  endCalls,            \* the endConversation() calls that are running
  endedOk,             \* observation: an endConversation() returned a result since initialize()
  lastEnd,             \* observation: the endConversation() call that ended in the last step
  \* ---- retryOperation ----
  retryPc,             \* where the retryOperation() call is: "idle", "calling", "waiting", "returned", "threw"
  attempt,             \* the loop variable
  lastError,           \* the error of the last failed attempt
  opLog,               \* observation: how each invocation of the operation ended in this call
  waits,               \* observation: the delays (ms) this call has slept
  \* ---- cleanup-interviews job ----
  inTable,             \* the due rows of interview_cleanups: inTable[r] iff record r exists
  files,               \* files[r]: the files stored under the prefix of record r
  jobPc,               \* "idle", "fetching", "processing", "responded"
  response,            \* the response of the last run: "none", "nothing", "completed", "failed"
  recPc,               \* where the callback of record r is: "idle", "listing", "removing", "deleting", "done"
  listed,              \* the files the callback of record r got from list()
  results              \* the result string of record r: "none", "nofiles", "cleaned", "error"

elVars == <<ws, sock, connectionPromise, isInitialized, useConversationalAI,
            isReconnecting, reconnectAttempts, delayed, calls, currentResolve,
            currentReject, msgTimers, messageTimeout, audioChunks,
            timeSinceLastChunk, chunkTimeout, attemptsMade, lastFlush, cleared,
            lastInterruption, delays, lastPing>>

convVars == <<conversation, conversationId, isInitializing, isActive, isPaused,
              transcript, currentUserResponse, sdk, initPc, initSession, initResult,
              endCalls, endedOk, lastEnd>>

retryVars == <<retryPc, attempt, lastError, opLog, waits>>

jobVars == <<inTable, files, jobPc, response, recPc, listed, results>>

vars == <<elVars, convVars, retryVars, jobVars>>

Sockets == 1..MaxSockets
Sessions == 1..MaxSessions
Ends == 1..MaxEnds
Calls == 1..MaxCalls
Records == 1..MaxRecords
FileNames == 1..MaxFileNames
EventIds == 0..MaxEventId

Min(a, b) == IF a < b THEN a ELSE b

(* ---------------- base64 payloads ---------------- *)
\* A base64 string is a sequence of symbols: 0..63 the alphabet A-Za-z0-9+/,
\* Pad the '=' sign, Ws an ASCII whitespace character.
Pad == 64
Ws == 65

RECURSIVE Pow(_, _)
Pow(b, n) == IF n = 0 THEN 1 ELSE b * Pow(b, n - 1)

RECURSIVE SextetValue(_)
SextetValue(s) ==
  IF s = <<>> THEN 0 ELSE 64 * SextetValue(SubSeq(s, 1, Len(s) - 1)) + s[Len(s)]

StripPadding(s) ==
  IF Len(s) > 0 /\ Len(s) % 4 = 0
  THEN IF s[Len(s)] = Pad /\ s[Len(s) - 1] = Pad THEN SubSeq(s, 1, Len(s) - 2)
       ELSE IF s[Len(s)] = Pad THEN SubSeq(s, 1, Len(s) - 1)
       ELSE s
  ELSE s

\* atob(): forgiving-base64 decode; ok = FALSE is the InvalidCharacterError.
Atob(base64) ==
  LET t == StripPadding(SelectSeq(base64, LAMBDA x : x # Ws))
      bits == 6 * Len(t)
      n == bits \div 8
      v == SextetValue(t)
  IN IF Len(t) % 4 = 1 \/ \E i \in 1..Len(t) : t[i] >= Pad
     THEN [ok |-> FALSE, bytes |-> <<>>]
     ELSE [ok |-> TRUE,
           bytes |-> [i \in 1..n |-> (v \div Pow(2, bits - 8 * i)) % 256]]

base64ToArrayBuffer(base64) == Atob(base64)

B64A == <<16, 16, Pad, Pad>>
B64BC == <<16, 36, 12, Pad>>
B64Empty == <<>>
B64Blank == <<Ws>>
B64Bad == <<16>>
Base64Inputs == {B64A, B64BC, B64Empty, B64Blank, B64Bad}

(* ---------------- concatenateAudioChunks ---------------- *)
RECURSIVE InsertChunk(_, _)
InsertChunk(sorted, c) ==
  IF sorted = <<>> THEN <<c>>
  ELSE IF sorted[Len(sorted)].eventId - c.eventId <= 0 THEN Append(sorted, c)
  ELSE Append(InsertChunk(SubSeq(sorted, 1, Len(sorted) - 1), c), sorted[Len(sorted)])

RECURSIVE SortByEventId(_)
SortByEventId(chunks) ==
  IF chunks = <<>> THEN <<>>
  ELSE InsertChunk(SortByEventId(SubSeq(chunks, 1, Len(chunks) - 1)), chunks[Len(chunks)])

RECURSIVE TotalLength(_)
TotalLength(chunks) ==
  IF chunks = <<>> THEN 0 ELSE Len(chunks[1].buffer) + TotalLength(Tail(chunks))

RECURSIVE CopyChunks(_, _, _)
CopyChunks(result, chunks, offset) ==
  IF chunks = <<>> THEN result
  ELSE LET view == chunks[1].buffer
       IN CopyChunks([i \in 1..Len(result) |->
                        IF i > offset /\ i <= offset + Len(view)
                        THEN view[i - offset] ELSE result[i]],
                     Tail(chunks), offset + Len(view))

\* Mutation of concatenateAudioChunks: the sort by event id is left out.
concatenateUnsorted(chunks) ==
  CopyChunks([i \in 1..TotalLength(chunks) |-> 0], chunks, 0)

concatenateAudioChunks(chunks) ==
  LET sorted == SortByEventId(chunks)
      totalLength == TotalLength(sorted)
  IN CopyChunks([i \in 1..totalLength |-> 0], sorted, 0)

(* ---------------- the service as a record of its fields ---------------- *)
NoFlush == [arrival |-> <<>>, buffer |-> <<>>, to |-> 0]
NoInterruption == [call |-> 0, buffered |-> <<>>, reason |-> "", error |-> <<>>]
NoPing == [sock |-> 0, open |-> FALSE, event_id |-> 0, pongs |-> <<>>]

Cur ==
  [ws |-> ws, sock |-> sock, connectionPromise |-> connectionPromise,
   isInitialized |-> isInitialized, useConversationalAI |-> useConversationalAI,
   isReconnecting |-> isReconnecting, reconnectAttempts |-> reconnectAttempts,
   delayed |-> delayed, calls |-> calls, currentResolve |-> currentResolve,
   currentReject |-> currentReject, msgTimers |-> msgTimers,
   messageTimeout |-> messageTimeout, audioChunks |-> audioChunks,
   timeSinceLastChunk |-> timeSinceLastChunk, chunkTimeout |-> chunkTimeout,
   attemptsMade |-> attemptsMade, lastFlush |-> NoFlush, cleared |-> cleared,
   lastInterruption |-> NoInterruption, delays |-> delays, lastPing |-> NoPing,
   resumeQ |-> <<>>]       \* continuations waiting for the microtask checkpoint

NoSocket ==
  [readyState |-> "CLOSED", established |-> FALSE, acked |-> FALSE,
   promise |-> "none", timeout |-> FALSE, waiters |-> <<>>]

NewSocket ==
  [readyState |-> "CONNECTING", established |-> FALSE, acked |-> FALSE,
   promise |-> "pending", timeout |-> TRUE, waiters |-> <<>>]

\* A closed socket whose connection timer is gone is unreachable garbage.
Collect(socks) ==
  [s \in Sockets |->
     IF socks[s].readyState = "CLOSED" /\ ~socks[s].timeout THEN NoSocket ELSE socks[s]]

Apply(r) ==
  /\ ws' = r.ws
  /\ sock' = Collect(r.sock)
  /\ connectionPromise' = r.connectionPromise
  /\ isInitialized' = r.isInitialized
  /\ useConversationalAI' = r.useConversationalAI
  /\ isReconnecting' = r.isReconnecting
  /\ reconnectAttempts' = r.reconnectAttempts
  /\ delayed' = r.delayed
  /\ calls' = r.calls
  /\ currentResolve' = r.currentResolve
  /\ currentReject' = r.currentReject
  /\ msgTimers' = r.msgTimers
  /\ messageTimeout' = r.messageTimeout
  /\ audioChunks' = r.audioChunks
  /\ timeSinceLastChunk' = r.timeSinceLastChunk
  /\ chunkTimeout' = r.chunkTimeout
  /\ attemptsMade' = r.attemptsMade
  /\ lastFlush' = r.lastFlush
  /\ cleared' = r.cleared
  /\ lastInterruption' = r.lastInterruption
  /\ delays' = r.delays
  /\ lastPing' = r.lastPing
  /\ UNCHANGED <<convVars, retryVars, jobVars>>

IsFree(r, s) == r.sock[s].readyState = "CLOSED" /\ ~r.sock[s].timeout
FreeSlot(r) == CHOOSE s \in Sockets : IsFree(r, s) /\ \A t \in Sockets : IsFree(r, t) => s <= t

WsOpen(r) == r.ws # 0 /\ r.sock[r.ws].readyState = "OPEN"

(* ---------------- promises ---------------- *)
\* resolve()/reject() of the connection promise created for socket s
Settle(r, s, ok) ==
  IF r.sock[s].promise = "pending"
  THEN [r EXCEPT !.sock[s].promise = IF ok THEN "resolved" ELSE "rejected",
                 !.sock[s].waiters = <<>>,
                 !.resumeQ = @ \o [i \in 1..Len(r.sock[s].waiters) |->
                                     <<r.sock[s].waiters[i], ok>>]]
  ELSE r

\* resolve function of the promise returned to sendMessage call c
ResolveCall(r, c) ==
  IF c # 0 /\ r.calls[c].state = "pending"
  THEN [r EXCEPT !.calls[c].state = "resolved"] ELSE r

RejectCall(r, c) ==
  IF c # 0 /\ r.calls[c].state = "pending"
  THEN [r EXCEPT !.calls[c].state = "rejected"] ELSE r

(* ---------------- setupWebSocket ---------------- *)
NeedsSocket(r) == r.connectionPromise = 0 /\ ~(WsOpen(r) /\ r.isInitialized)

\* w awaits setupWebSocket(): w = 0 is reconnect(), w in Calls is sendMessage
SetupWebSocket(r, w) ==
  IF r.connectionPromise # 0
  THEN LET p == r.connectionPromise
       IN IF r.sock[p].promise = "pending"
          THEN [r EXCEPT !.sock[p].waiters = Append(@, w)]
          ELSE [r EXCEPT !.resumeQ = Append(@, <<w, r.sock[p].promise = "resolved">>)]
  ELSE IF WsOpen(r) /\ r.isInitialized
  THEN [r EXCEPT !.resumeQ = Append(@, <<w, TRUE>>)]
  ELSE LET s == FreeSlot(r)
       IN [r EXCEPT !.sock[s] = [NewSocket EXCEPT !.waiters = <<w>>],
                    !.ws = s, !.connectionPromise = s]

(* ---------------- sendMessage ---------------- *)
\* the executor of the promise sendMessage returns, run once the connection is ready
SendContinue(r, c) ==
  LET r1 == [r EXCEPT !.currentResolve = c, !.currentReject = c]
  IN IF WsOpen(r1) /\ r1.isInitialized
     THEN [r1 EXCEPT !.calls[c].state = "pending",
                     !.msgTimers = @ \cup {c},
                     !.messageTimeout = c]
     ELSE [r1 EXCEPT !.calls[c].state = "rejected"]

\* continuation after `await this.setupWebSocket()`
Resume(r, w, ok) ==
  IF w = 0 THEN [r EXCEPT !.isReconnecting = FALSE]
  ELSE IF ok THEN SendContinue(r, w)
  ELSE [r EXCEPT !.useConversationalAI = FALSE, !.calls[w].state = "tts"]

RECURSIVE Microtasks(_)
Microtasks(r) ==
  IF r.resumeQ = <<>> THEN r
  ELSE LET h == Head(r.resumeQ)
       IN Microtasks(Resume([r EXCEPT !.resumeQ = Tail(@)], h[1], h[2]))

(* ---------------- reconnect ---------------- *)
\* Mutation of Reconnect: the attempt counter is not incremented.
ReconnectNoCount(r) ==
  IF r.isReconnecting THEN r
  ELSE [r EXCEPT !.isReconnecting = TRUE,
                 !.delayed = @ + 1,
                 !.attemptsMade = Min(@ + 1, maxReconnectAttempts + 1)]

\* the backoff delay of the attempt that made the counter reach n
BackoffDelay(n) == Min(ReconnectBaseDelayMs * Pow(2, n - 1), ReconnectMaxDelayMs)

\* Mutation of Reconnect: every attempt waits the base delay.
ReconnectFixedDelay(r) ==
  IF r.isReconnecting THEN r
  ELSE IF r.reconnectAttempts + 1 > maxReconnectAttempts
  THEN [r EXCEPT !.reconnectAttempts = @ + 1]
  ELSE [r EXCEPT !.isReconnecting = TRUE,
                 !.reconnectAttempts = @ + 1,
                 !.delayed = @ + 1,
                 !.attemptsMade = Min(@ + 1, maxReconnectAttempts + 1),
                 !.delays = Append(@, ReconnectBaseDelayMs)]

\* reconnect() up to its first await (the backoff delay)
Reconnect(r) ==
  IF r.isReconnecting THEN r
  ELSE IF r.reconnectAttempts + 1 > maxReconnectAttempts
  THEN [r EXCEPT !.reconnectAttempts = @ + 1]
  ELSE [r EXCEPT !.isReconnecting = TRUE,
                 !.reconnectAttempts = @ + 1,
                 !.delayed = @ + 1,
                 !.attemptsMade = Min(@ + 1, maxReconnectAttempts + 1),
                 !.delays = Append(@, BackoffDelay(r.reconnectAttempts + 1))]

(* ---------------- socket handlers ---------------- *)
onopen(r, s) ==
  LET r1 == [r EXCEPT !.sock[s].readyState = "OPEN",
                      !.sock[s].established = TRUE,
                      !.isReconnecting = FALSE,
                      !.reconnectAttempts = 0,
                      !.attemptsMade = 0,
                      !.delays = <<>>]
  IN IF r1.ws # 0 /\ r1.sock[r1.ws].readyState = "CONNECTING"
     THEN Settle(r1, s, FALSE)     \* this.ws.send throws on a connecting socket
     ELSE r1

onclose(r, s, code) ==
  LET r1 == [r EXCEPT !.sock[s].readyState = "CLOSED",
                      !.sock[s].established = FALSE,
                      !.ws = 0,
                      !.isInitialized = FALSE,
                      !.connectionPromise = 0]
  IN IF code # NormalClosure /\ ~r1.isReconnecting
        /\ r1.reconnectAttempts < maxReconnectAttempts
     THEN Reconnect(r1) ELSE r1

onerror(r, s) ==
  LET r1 == IF ~r.isInitialized
            THEN [Settle(r, s, FALSE) EXCEPT !.connectionPromise = 0]
            ELSE r
  IN IF ~r1.isReconnecting /\ r1.reconnectAttempts < maxReconnectAttempts
     THEN Reconnect(r1) ELSE r1

(* ---------------- checkAndPlayAudioChunks ---------------- *)
\* Mutation of FlushDue: the quiet period is not checked.
FlushDueAnyTime(chunks, since) == Len(chunks) > 0

FlushDue(chunks, since) == Len(chunks) > 0 /\ since >= QuietThresholdMs

\* Mutation of checkAndPlayAudioChunks: the concatenation is thrown away and the
\* request resolved with an empty buffer, without the byteLength check.
checkAndPlayEmpty(r) ==
  LET r1 == [r EXCEPT !.chunkTimeout = {}]
  IN IF FlushDue(r1.audioChunks, r1.timeSinceLastChunk)
     THEN LET r2 == ResolveCall(r1, r1.currentResolve)
          IN [r2 EXCEPT !.audioChunks = <<>>,
                        !.lastFlush = [arrival |-> r1.audioChunks,
                                       buffer |-> <<>>,
                                       to |-> IF r2.calls # r1.calls
                                              THEN r1.currentResolve ELSE 0]]
     ELSE [r1 EXCEPT !.chunkTimeout = {PollIntervalMs}]

\* Mutation of checkAndPlayAudioChunks: a check that does not flush schedules no
\* further check.
checkAndPlayOnce(r) ==
  LET r1 == [r EXCEPT !.chunkTimeout = {}]
  IN IF FlushDue(r1.audioChunks, r1.timeSinceLastChunk)
     THEN LET audioBuffer == concatenateAudioChunks(r1.audioChunks)
              r2 == IF Len(audioBuffer) > 0
                    THEN ResolveCall(r1, r1.currentResolve)
                    ELSE RejectCall(r1, r1.currentReject)
          IN [r2 EXCEPT !.audioChunks = <<>>,
                        !.lastFlush = [arrival |-> r1.audioChunks,
                                       buffer |-> audioBuffer,
                                       to |-> IF r2.calls # r1.calls
                                              THEN r1.currentResolve ELSE 0]]
     ELSE r1

checkAndPlayAudioChunks(r) ==
  LET r1 == [r EXCEPT !.chunkTimeout = {}]
  IN IF FlushDue(r1.audioChunks, r1.timeSinceLastChunk)
     THEN LET audioBuffer == concatenateAudioChunks(r1.audioChunks)
              r2 == IF Len(audioBuffer) > 0
                    THEN ResolveCall(r1, r1.currentResolve)
                    ELSE RejectCall(r1, r1.currentReject)
          IN [r2 EXCEPT !.audioChunks = <<>>,
                        !.lastFlush = [arrival |-> r1.audioChunks,
                                       buffer |-> audioBuffer,
                                       to |-> IF r2.calls # r1.calls
                                              THEN r1.currentResolve ELSE 0]]
     ELSE [r1 EXCEPT !.chunkTimeout = {PollIntervalMs}]

(* ---------------- ConversationService as a record of its fields ---------------- *)
NoEnd == [pc |-> "unused", result |-> "none", idOk |-> FALSE,
          noSession |-> FALSE, afterSuccess |-> FALSE, fetchFailed |-> FALSE]

\* An ended session that no field refers to is unreachable garbage.
ConvCollect(v) ==
  [n \in Sessions |->
     IF v.sdk[n] = "ended" /\ v.conversation # n /\ v.conversationId # n /\ v.initSession # n
     THEN "none" ELSE v.sdk[n]]

ConvCur ==
  [conversation |-> conversation, conversationId |-> conversationId,
   isInitializing |-> isInitializing, isActive |-> isActive, isPaused |-> isPaused,
   transcript |-> transcript, currentUserResponse |-> currentUserResponse,
   sdk |-> sdk, initPc |-> initPc, initSession |-> initSession, initResult |-> "none",
   endCalls |-> endCalls, endedOk |-> endedOk, lastEnd |-> NoEnd]

ConvApply(v) ==
  /\ conversation' = v.conversation
  /\ conversationId' = v.conversationId
  /\ isInitializing' = v.isInitializing
  /\ isActive' = v.isActive
  /\ isPaused' = v.isPaused
  /\ transcript' = v.transcript
  /\ currentUserResponse' = v.currentUserResponse
  /\ sdk' = ConvCollect(v)
  /\ initPc' = v.initPc
  /\ initSession' = v.initSession
  /\ initResult' = v.initResult
  /\ endCalls' = v.endCalls
  /\ endedOk' = v.endedOk
  /\ lastEnd' = v.lastEnd
  /\ UNCHANGED <<elVars, retryVars, jobVars>>

\* conversation.endSession(): the SDK starts closing that session
EndSession(v, n) ==
  [v EXCEPT !.sdk[n] = IF @ = "live" THEN "ending" ELSE @]

cleanup(v) ==
  LET v1 == IF v.conversation # 0 THEN EndSession(v, v.conversation) ELSE v
  IN [v1 EXCEPT !.conversation = 0, !.conversationId = 0, !.isActive = FALSE]

(* ---------------- retryOperation: how one invocation can end ---------------- *)
\* An outcome is a result or the error the operation threw: an axios error with
\* the status of its response (0: no response was received) or another error.
NoError == [kind |-> "none", status |-> 0]
Success == [kind |-> "ok", status |-> 200]
AxiosError(status) == [kind |-> "axios", status |-> status]
OtherError == [kind |-> "other", status |-> 0]

Outcomes == {Success, OtherError} \cup {AxiosError(st) : st \in {0, 404, 499, 500, 503}}

\* Mutation of ClientError: no error counts as a client error.
ClientErrorNever(error) == FALSE

\* axios.isAxiosError(error) && error.response?.status && error.response.status < 500
ClientError(error) == error.kind = "axios" /\ error.status # 0 /\ error.status < 500

(* ---------------- initial state: after the constructor ---------------- *)
InitServices ==
  /\ ws = 0
  /\ sock = [s \in Sockets |-> NoSocket]
  /\ connectionPromise = 0
  /\ isInitialized = FALSE
  /\ useConversationalAI = TRUE             \* an agent id is configured
  /\ isReconnecting = FALSE
  /\ reconnectAttempts = 0
  /\ delayed = 0
  /\ calls = [c \in Calls |-> [state |-> "unused", afterClear |-> FALSE]]
  /\ currentResolve = 0
  /\ currentReject = 0
  /\ msgTimers = {}
  /\ messageTimeout = 0
  /\ audioChunks = <<>>
  /\ timeSinceLastChunk = QuietThresholdMs
  /\ chunkTimeout = {}
  /\ attemptsMade = 0
  /\ lastFlush = NoFlush
  /\ cleared = FALSE
  /\ lastInterruption = NoInterruption
  /\ delays = <<>>
  /\ lastPing = NoPing
  /\ conversation = 0
  /\ conversationId = 0
  /\ isInitializing = FALSE
  /\ isActive = FALSE
  /\ isPaused = FALSE
  /\ transcript = <<>>
  /\ currentUserResponse = ""
  /\ sdk = [n \in Sessions |-> "none"]
  /\ initPc = "idle"
  /\ initSession = 0
  /\ initResult = "none"
  /\ endCalls = [e \in Ends |-> NoEnd]
  /\ endedOk = FALSE
  /\ lastEnd = NoEnd
  /\ retryPc = "idle"
  /\ attempt = 0
  /\ lastError = NoError
  /\ opLog = <<>>
  /\ waits = <<>>

\* The job has not run yet.
InitJob ==
  /\ jobPc = "idle"
  /\ response = "none"
  /\ recPc = [r \in Records |-> "idle"]
  /\ listed = [r \in Records |-> {}]
  /\ results = [r \in Records |-> "none"]

\* No cleanup record is due.
Init ==
  /\ InitServices
  /\ InitJob
  /\ inTable = [r \in Records |-> FALSE]
  /\ files = [r \in Records |-> {}]

\* Any set of due cleanup records, each with any set of files under its prefix.
InitCleanup ==
  /\ InitServices
  /\ InitJob
  /\ inTable \in [Records -> BOOLEAN]
  /\ files \in [Records -> SUBSET FileNames]
  /\ \A r \in Records : ~inTable[r] => files[r] = {}

(* ---------------- caller operations ---------------- *)
NextCall(c) == calls[c].state = "unused" /\ \A d \in Calls : d < c => calls[d].state # "unused"

SendMessage ==
  \E c \in Calls :
    /\ NextCall(c)
    /\ LET r == [Cur EXCEPT !.calls[c] = [state |-> "connecting", afterClear |-> cleared]]
       IN IF r.useConversationalAI
          THEN /\ NeedsSocket(r) => \E s \in Sockets : IsFree(r, s)
               /\ Apply(Microtasks(SetupWebSocket(r, c)))
          ELSE Apply([r EXCEPT !.calls[c].state = "tts"])

ClearConversation ==
  LET r1 == IF messageTimeout # 0
            THEN [Cur EXCEPT !.msgTimers = @ \ {messageTimeout}, !.messageTimeout = 0]
            ELSE Cur
      r2 == IF r1.ws # 0
            THEN [r1 EXCEPT !.sock[r1.ws].readyState =
                              IF @ \in {"CONNECTING", "OPEN"} THEN "CLOSING" ELSE @,
                            !.ws = 0]
            ELSE r1
  IN Apply([r2 EXCEPT !.cleared = TRUE])

(* ---------------- socket events ---------------- *)
CloseCodes == {NormalClosure, 1005, 1006}

Live(s) == sock[s].established /\ sock[s].readyState \in {"OPEN", "CLOSING"}

SocketOpens(s) ==
  /\ sock[s].readyState = "CONNECTING"
  /\ Apply(Microtasks(onopen(Cur, s)))

\* the connection fails: an error event, then a close event with code 1006
SocketFails(s) ==
  /\ sock[s].readyState # "CLOSED"
  /\ LET r == Microtasks(onclose(Microtasks(onerror(Cur, s)), s, 1006))
     IN r.delayed <= MaxDelayed /\ Apply(r)

\* the closing handshake completes, or the connection is lost without an error event
SocketCloses(s, code) ==
  /\ Live(s)
  /\ LET r == Microtasks(onclose(Cur, s, code))
     IN r.delayed <= MaxDelayed /\ Apply(r)

InitiationMetadata(s) ==
  /\ Live(s)
  /\ LET r1 == [Cur EXCEPT !.isInitialized = TRUE, !.sock[s].timeout = FALSE,
                           !.sock[s].acked = TRUE]
         r2 == [Settle(r1, s, TRUE) EXCEPT !.connectionPromise = 0]
     IN Apply(Microtasks(r2))

\* Mutation of AudioEvent: a payload that decodes to zero bytes is stored like any other.
AudioEventKeepsEmpty(s, eventId, base64Audio) ==
  /\ Live(s)
  /\ LET r1 == IF messageTimeout # 0
               THEN [Cur EXCEPT !.msgTimers = @ \ {messageTimeout}, !.messageTimeout = 0]
               ELSE Cur
         audioBuffer == base64ToArrayBuffer(base64Audio)
     IN IF base64Audio = <<>> \/ ~audioBuffer.ok
        THEN Apply(r1)
        ELSE /\ Len(audioChunks) < MaxChunks
             /\ Apply(checkAndPlayAudioChunks(
                   [r1 EXCEPT !.audioChunks =
                                Append(@, [buffer |-> audioBuffer.bytes, eventId |-> eventId]),
                              !.timeSinceLastChunk = 0]))

AudioEvent(s, eventId, base64Audio) ==
  /\ Live(s)
  /\ LET r1 == IF messageTimeout # 0
               THEN [Cur EXCEPT !.msgTimers = @ \ {messageTimeout}, !.messageTimeout = 0]
               ELSE Cur
         audioBuffer == base64ToArrayBuffer(base64Audio)
     IN IF base64Audio = <<>> \/ ~audioBuffer.ok \/ Len(audioBuffer.bytes) = 0
        THEN Apply(r1)
        ELSE /\ Len(audioChunks) < MaxChunks
             /\ Apply(checkAndPlayAudioChunks(
                   [r1 EXCEPT !.audioChunks =
                                Append(@, [buffer |-> audioBuffer.bytes, eventId |-> eventId]),
                              !.timeSinceLastChunk = 0]))

Reasons == {"", "busy"}

\* What a step observes of an interruption that found request c pending; the
\* reason is kept only where the handler uses it, in the error it rejects with.
Interrupted(c, buffered, reason, error) ==
  IF c # 0 /\ calls[c].state = "pending"
  THEN [call |-> c, buffered |-> buffered,
        reason |-> IF error = <<>> THEN "" ELSE reason, error |-> error]
  ELSE NoInterruption

\* Mutation of Interruption: the event is dropped without touching the request.
InterruptionIgnored(s, reason) ==
  /\ Live(s)
  /\ Apply([Cur EXCEPT !.lastInterruption =
              Interrupted(currentReject, audioChunks, reason, <<>>)])

\* Mutation of Interruption: whatever was buffered is discarded and the request rejected.
InterruptionDiscards(s, reason) ==
  /\ Live(s)
  /\ LET why == IF reason = "" THEN "Unknown reason" ELSE reason
         error == <<"Interview interrupted: ", why>>
         r0 == [Cur EXCEPT !.lastInterruption =
                  Interrupted(currentReject, audioChunks, reason, error)]
     IN IF currentReject # 0
        THEN Apply([RejectCall(r0, currentReject) EXCEPT !.audioChunks = <<>>,
                                                         !.chunkTimeout = {}])
        ELSE Apply(r0)

Interruption(s, reason) ==
  /\ Live(s)
  /\ LET why == IF reason = "" THEN "Unknown reason" ELSE reason
         error == <<"Interview interrupted: ", why>>
         r0 == [Cur EXCEPT !.lastInterruption =
                  Interrupted(currentReject, audioChunks, reason,
                              IF Len(audioChunks) = 0 THEN error ELSE <<>>)]
     IN IF currentReject # 0
        THEN IF Len(audioChunks) = 0
             THEN Apply(RejectCall(r0, currentReject))
             ELSE Apply(checkAndPlayAudioChunks(r0))
        ELSE Apply(r0)

\* The event id of a ping: NoEventId stands for a ping_event without event_id.
NoEventId == -1
PingIds == {NoEventId} \cup EventIds

\* pingEvent.ping_event?.event_id || 0
PongEventId(id) == IF id = NoEventId \/ id = 0 THEN 0 ELSE id

\* a 'ping' event delivered to the handlers of socket s
Ping(s, id) ==
  /\ Live(s)
  /\ Apply([Cur EXCEPT !.lastPing =
        [sock |-> s, open |-> sock[s].readyState = "OPEN", event_id |-> id,
         pongs |-> IF WsOpen(Cur)
                   THEN <<[sock |-> ws, event_id |-> PongEventId(id)]>>
                   ELSE <<>>]])

\* a message that JSON.parse rejects
MalformedEvent(s) ==
  /\ Live(s)
  /\ IF currentReject # 0 /\ Len(audioChunks) = 0
     THEN Apply(RejectCall(Cur, currentReject))
     ELSE Apply(Cur)

(* ---------------- timers ---------------- *)
ConnectionTimeoutFires(s) ==
  /\ sock[s].timeout
  /\ LET r1 == [Cur EXCEPT !.sock[s].timeout = FALSE]
         r2 == [Settle(r1, s, FALSE) EXCEPT !.connectionPromise = 0]
     IN Apply(Microtasks(r2))

MessageTimeoutFires(c) ==
  /\ c \in msgTimers
  /\ Apply([RejectCall(Cur, c) EXCEPT !.msgTimers = @ \ {c},
                                      !.currentResolve = 0,
                                      !.currentReject = 0])

\* reconnect() after its backoff delay: await this.setupWebSocket()
ReconnectDelayElapsed ==
  /\ delayed > 0
  /\ LET r == [Cur EXCEPT !.delayed = @ - 1]
     IN /\ NeedsSocket(r) => \E s \in Sockets : IsFree(r, s)
        /\ Apply(Microtasks(SetupWebSocket(r, 0)))

ChunkTimeoutFires ==
  /\ chunkTimeout = {0}
  /\ Apply(checkAndPlayAudioChunks(Cur))

\* PollIntervalMs of wall-clock time pass; a due poll timer fires first
Tick ==
  /\ 0 \notin chunkTimeout
  /\ timeSinceLastChunk < QuietThresholdMs \/ chunkTimeout # {}
  /\ Apply([Cur EXCEPT
        !.timeSinceLastChunk = Min(@ + PollIntervalMs, QuietThresholdMs),
        !.chunkTimeout = {d - PollIntervalMs : d \in @}])

NextService ==
  \/ SendMessage
  \/ ClearConversation
  \/ \E s \in Sockets : SocketOpens(s)
  \/ \E s \in Sockets : SocketFails(s)
  \/ \E s \in Sockets, code \in CloseCodes : SocketCloses(s, code)
  \/ \E s \in Sockets : InitiationMetadata(s)
  \/ \E s \in Sockets, eventId \in EventIds, b \in Base64Inputs : AudioEvent(s, eventId, b)
  \/ \E s \in Sockets, reason \in Reasons : Interruption(s, reason)
  \/ \E s \in Sockets : MalformedEvent(s)
  \/ \E s \in Sockets : ConnectionTimeoutFires(s)
  \/ \E c \in Calls : MessageTimeoutFires(c)
  \/ ReconnectDelayElapsed
  \/ ChunkTimeoutFires
  \/ Tick
  \/ \E s \in Sockets, id \in PingIds : Ping(s, id)

\* A session whose connection stays up: no socket failure, close or clearConversation.
NextAudio ==
  \/ SendMessage
  \/ \E s \in Sockets : SocketOpens(s)
  \/ \E s \in Sockets : InitiationMetadata(s)
  \/ \E s \in Sockets, eventId \in EventIds, b \in Base64Inputs : AudioEvent(s, eventId, b)
  \/ \E s \in Sockets, reason \in Reasons : Interruption(s, reason)
  \/ \E s \in Sockets : MalformedEvent(s)
  \/ \E s \in Sockets : ConnectionTimeoutFires(s)
  \/ \E c \in Calls : MessageTimeoutFires(c)
  \/ ChunkTimeoutFires
  \/ Tick

SpecAudio == Init /\ [][NextAudio]_vars

\* The connection life cycle while the remote side sends no audio and the caller
\* awaits each sendMessage before the next one.
NextConn ==
  \/ (SendMessage /\ \A c \in Calls : calls[c].state \notin {"connecting", "pending"})
  \/ ClearConversation
  \/ \E s \in Sockets : SocketOpens(s)
  \/ \E s \in Sockets : SocketFails(s)
  \/ \E s \in Sockets, code \in CloseCodes : SocketCloses(s, code)
  \/ \E s \in Sockets : InitiationMetadata(s)
  \/ \E s \in Sockets, reason \in Reasons : Interruption(s, reason)
  \/ \E s \in Sockets : MalformedEvent(s)
  \/ \E s \in Sockets : ConnectionTimeoutFires(s)
  \/ \E c \in Calls : MessageTimeoutFires(c)
  \/ ReconnectDelayElapsed

SpecConn == Init /\ [][NextConn]_vars

\* Audio arriving while requests come and go and the caller clears the
\* conversation; the clock advances and a due poll timer fires.
NextFlush ==
  \/ (SendMessage /\ \A c \in Calls : calls[c].state \notin {"connecting", "pending"})
  \/ ClearConversation
  \/ \E s \in Sockets : SocketOpens(s)
  \/ \E s \in Sockets : InitiationMetadata(s)
  \/ \E s \in Sockets, eventId \in EventIds : AudioEvent(s, eventId, B64A)
  \/ \E s \in Sockets : Interruption(s, "")
  \/ ChunkTimeoutFires
  \/ Tick

SpecFlush == Init /\ [][NextFlush]_vars /\ WF_vars(Tick) /\ WF_vars(ChunkTimeoutFires)

\* Keep-alive traffic while connections are set up, time out and close.
NextPing ==
  \/ (SendMessage /\ \A c \in Calls : calls[c].state \notin {"connecting", "pending"})
  \/ ClearConversation
  \/ \E s \in Sockets : SocketOpens(s)
  \/ \E s \in Sockets, code \in CloseCodes : SocketCloses(s, code)
  \/ \E s \in Sockets : InitiationMetadata(s)
  \/ \E s \in Sockets : ConnectionTimeoutFires(s)
  \/ \E c \in Calls : MessageTimeoutFires(c)
  \/ ReconnectDelayElapsed
  \/ \E s \in Sockets, id \in PingIds : Ping(s, id)

SpecPing == Init /\ [][NextPing]_vars

TypeOK ==
  /\ ws \in 0..MaxSockets
  /\ connectionPromise \in 0..MaxSockets
  /\ reconnectAttempts \in 0..maxReconnectAttempts
  /\ delayed \in 0..MaxDelayed
  /\ ws # 0 => sock[ws].readyState # "CLOSED"
  /\ Len(audioChunks) <= MaxChunks

(* ---------------- ConversationService.initialize ---------------- *)
NextSession(n) == sdk[n] = "none" /\ \A m \in Sessions : m < n => sdk[m] # "none"

InitEnds(v, result) ==
  [v EXCEPT !.isInitializing = FALSE, !.initPc = "idle", !.initSession = 0,
            !.initResult = result]

\* Mutation of Initialize: the isInitializing guard is left out.
InitializeUnguarded ==
  \E n \in Sessions :
    /\ NextSession(n)
    /\ ConvApply([ConvCur EXCEPT !.isInitializing = TRUE,
                                 !.transcript = <<>>,
                                 !.conversationId = 0,
                                 !.isActive = FALSE,
                                 !.sdk[n] = "live",
                                 !.initPc = "starting",
                                 !.initSession = n,
                                 !.endedOk = FALSE])

\* initialize() up to `await Conversation.startSession(...)`
Initialize ==
  IF isInitializing
  THEN ConvApply([ConvCur EXCEPT !.initResult = "returned"])
  ELSE \E n \in Sessions :
         /\ NextSession(n)
         /\ ConvApply([ConvCur EXCEPT !.isInitializing = TRUE,
                                      !.transcript = <<>>,
                                      !.conversationId = 0,
                                      !.isActive = FALSE,
                                      !.sdk[n] = "live",
                                      !.initPc = "starting",
                                      !.initSession = n,
                                      !.endedOk = FALSE])

\* checkId(): one look at the conversation id while initialize() waits for it
checkId(v) ==
  IF v.conversationId # 0
  THEN InitEnds(v, "returned")
  ELSE IF ~v.isInitializing
  THEN InitEnds(cleanup(v), "threw")
  ELSE [v EXCEPT !.initPc = "polling", !.initSession = 0]

\* startSession resolves with the session this initialize() started
StartSessionResolves ==
  /\ initPc = "starting"
  /\ ConvApply(checkId([ConvCur EXCEPT !.conversation = initSession]))

StartSessionRejects ==
  /\ initPc = "starting"
  /\ ConvApply(InitEnds(cleanup([ConvCur EXCEPT !.sdk[initSession] = "ended"]), "threw"))

PollId ==
  /\ initPc = "polling"
  /\ ConvApply(checkId(ConvCur))

\* the 5 s timeout of the wait for the conversation id
IdTimeout ==
  /\ initPc = "polling"
  /\ ConvApply(InitEnds(cleanup(ConvCur), "threw"))

(* ---------------- SDK callbacks ---------------- *)
OnConnect(n, hasId) ==
  /\ sdk[n] = "live"
  /\ IF conversation # 0 /\ hasId
     THEN ConvApply([ConvCur EXCEPT !.conversationId = conversation, !.isActive = TRUE])
     ELSE ConvApply(cleanup(ConvCur))

OnDisconnect(n) ==
  /\ sdk[n] \in {"live", "ending"}
  /\ ConvApply([ConvCur EXCEPT !.sdk[n] = "ended", !.isActive = FALSE])

OnError(n) ==
  /\ sdk[n] = "live"
  /\ ConvApply(cleanup(ConvCur))

MessageTexts == {"m"}
SpeechTexts == {"u"}

OnMessage(n, message) ==
  /\ sdk[n] = "live"
  /\ IF ~isActive THEN ConvApply(ConvCur)
     ELSE /\ Len(transcript) + 3 <= MaxTranscript
          /\ ConvApply([ConvCur EXCEPT !.transcript = @ \o <<"AI: ", message, "\n">>])

OnModeChange(n, mode) ==
  /\ sdk[n] = "live"
  /\ IF ~isActive THEN ConvApply(ConvCur)
     ELSE IF mode = "listening"
     THEN /\ Len(transcript) + 1 <= MaxTranscript
          /\ ConvApply([ConvCur EXCEPT !.currentUserResponse = "",
                                       !.transcript = Append(@, "User: ")])
     ELSE IF mode = "speaking" /\ currentUserResponse # ""
     THEN /\ Len(transcript) + 2 <= MaxTranscript
          /\ ConvApply([ConvCur EXCEPT !.transcript = @ \o <<currentUserResponse, "\n">>])
     ELSE ConvApply(ConvCur)

OnSpeechRecognized(n, text) ==
  /\ sdk[n] = "live"
  /\ IF ~isActive THEN ConvApply(ConvCur)
     ELSE ConvApply([ConvCur EXCEPT !.currentUserResponse = text])

(* ---------------- ConversationService.endConversation ---------------- *)
NextEnd(e) == endCalls[e].pc = "unused" /\ \A d \in Ends : d < e => endCalls[d].pc # "unused"

\* call e ends: its promise settles and the call is forgotten
Ended(v, e, result) ==
  [v EXCEPT !.lastEnd = [v.endCalls[e] EXCEPT !.pc = "done", !.result = result, !.idOk = FALSE],
            !.endCalls[e] = NoEnd,
            !.endedOk = @ \/ result = "value"]

Threw(v, e) == Ended(cleanup(v), e, "threw")

\* endConversation() up to `await this.conversation.endSession()`
EndConversation ==
  \E e \in Ends :
    /\ NextEnd(e)
    /\ LET v == [ConvCur EXCEPT !.endCalls[e] =
                   [NoEnd EXCEPT !.noSession = (conversation = 0 \/ ~isActive),
                                 !.afterSuccess = endedOk]]
       IN IF v.conversationId = 0 \/ ~v.isActive
          THEN ConvApply(Threw(v, e))
          ELSE IF v.conversation # 0
          THEN /\ v.currentUserResponse # "" => Len(transcript) + 2 <= MaxTranscript
               /\ LET v1 == IF v.currentUserResponse # ""
                            THEN [v EXCEPT !.transcript = @ \o <<v.currentUserResponse, "\n">>]
                            ELSE v
                  IN ConvApply([EndSession(v1, v1.conversation) EXCEPT
                                  !.endCalls[e].pc = "endSession"])
          ELSE ConvApply(Ended(v, e, "null"))

EndSessionSettles(e, ok) ==
  /\ endCalls[e].pc = "endSession"
  /\ IF ok
     THEN ConvApply([ConvCur EXCEPT !.isActive = FALSE, !.conversation = 0,
                                   !.endCalls[e].pc = "delay"])
     ELSE ConvApply(Threw(ConvCur, e))

\* the 2 s wait is over: the audio request goes out for the current conversation id
EndDelayElapsed(e) ==
  /\ endCalls[e].pc = "delay"
  /\ ConvApply([ConvCur EXCEPT !.endCalls[e].pc = "fetchAudio",
                               !.endCalls[e].idOk = (conversationId # 0)])

AudioResponse(e, ok) ==
  /\ endCalls[e].pc = "fetchAudio"
  /\ ok => endCalls[e].idOk
  /\ IF ok
     THEN ConvApply([ConvCur EXCEPT !.endCalls[e].pc = "fetchDetails",
                                   !.endCalls[e].idOk = (conversationId # 0)])
     ELSE ConvApply(Threw([ConvCur EXCEPT !.endCalls[e].fetchFailed = TRUE], e))

DetailsResponse(e, ok) ==
  /\ endCalls[e].pc = "fetchDetails"
  /\ ok => endCalls[e].idOk
  /\ IF ok
     THEN ConvApply(Ended([ConvCur EXCEPT !.conversationId = 0], e, "value"))
     ELSE ConvApply(Threw([ConvCur EXCEPT !.endCalls[e].fetchFailed = TRUE], e))

(* ---------------- pause / resume ---------------- *)
Pause ==
  IF conversation = 0 \/ isPaused THEN ConvApply(ConvCur)
  ELSE ConvApply([ConvCur EXCEPT !.isPaused = TRUE])

ResumeConversation ==
  IF conversation = 0 \/ ~isPaused THEN ConvApply(ConvCur)
  ELSE ConvApply([ConvCur EXCEPT !.isPaused = FALSE])

\* The session life cycle: initialize, the connection callbacks, endConversation.
NextConv ==
  \/ Initialize
  \/ StartSessionResolves
  \/ StartSessionRejects
  \/ PollId
  \/ IdTimeout
  \/ \E n \in Sessions, hasId \in BOOLEAN : OnConnect(n, hasId)
  \/ \E n \in Sessions : OnDisconnect(n)
  \/ \E n \in Sessions : OnError(n)
  \/ EndConversation
  \/ \E e \in Ends, ok \in BOOLEAN : EndSessionSettles(e, ok)
  \/ \E e \in Ends : EndDelayElapsed(e)
  \/ \E e \in Ends, ok \in BOOLEAN : AudioResponse(e, ok)
  \/ \E e \in Ends, ok \in BOOLEAN : DetailsResponse(e, ok)

SpecConv == Init /\ [][NextConv]_vars

\* The conversation events that build the transcript, and pause / resume.
NextTalk ==
  \/ \E n \in Sessions, m \in MessageTexts : OnMessage(n, m)
  \/ \E n \in Sessions, mode \in {"listening", "speaking"} : OnModeChange(n, mode)
  \/ \E n \in Sessions, t \in SpeechTexts : OnSpeechRecognized(n, t)
  \/ Pause
  \/ ResumeConversation

\* A conversation from initialize to its end, with the events that build the
\* transcript and pause / resume.
NextTalking == NextConv \/ NextTalk

SpecTalk == Init /\ [][NextTalking]_vars

(* ---------------- retryOperation ---------------- *)
RetryApply(pc, n, error, log, slept) ==
  /\ retryPc' = pc
  /\ attempt' = n
  /\ lastError' = error
  /\ opLog' = log
  /\ waits' = slept
  /\ UNCHANGED <<elVars, convVars, jobVars>>

\* retryOperation(operation) up to the first `await operation()`
RetryOperation ==
  /\ retryPc \in {"idle", "returned", "threw"}
  /\ RetryApply("calling", 1, NoError, <<>>, <<>>)

\* the promise of operation() settles
OperationSettles(outcome) ==
  /\ retryPc = "calling"
  /\ IF outcome = Success
     THEN RetryApply("returned", attempt, lastError, Append(opLog, outcome), waits)
     ELSE IF ClientError(outcome)
     THEN RetryApply("threw", attempt, outcome, Append(opLog, outcome), waits)
     ELSE IF attempt < retryCount
     THEN RetryApply("waiting", attempt, outcome, Append(opLog, outcome),
                     Append(waits, retryDelay * attempt))
     ELSE RetryApply("threw", attempt + 1, outcome, Append(opLog, outcome), waits)

\* the setTimeout of the delay fires: continue with the next attempt
RetryDelayElapsed ==
  /\ retryPc = "waiting"
  /\ RetryApply("calling", attempt + 1, lastError, opLog, waits)

NextRetry ==
  \/ RetryOperation
  \/ \E outcome \in Outcomes : OperationSettles(outcome)
  \/ RetryDelayElapsed

SpecRetry == Init /\ [][NextRetry]_vars

(* ---------------- cleanup-interviews ---------------- *)
JobCur ==
  [inTable |-> inTable, files |-> files, jobPc |-> jobPc, response |-> response,
   recPc |-> recPc, listed |-> listed, results |-> results]

\* Promise.all resolves once every callback has returned: the run responds.
JobApply(j) ==
  LET j1 == IF j.jobPc = "processing" /\ \A r \in Records : j.recPc[r] \in {"idle", "done"}
            THEN [j EXCEPT !.jobPc = "responded", !.response = "completed"]
            ELSE j
  IN /\ inTable' = j1.inTable
     /\ files' = j1.files
     /\ jobPc' = j1.jobPc
     /\ response' = j1.response
     /\ recPc' = j1.recPc
     /\ listed' = j1.listed
     /\ results' = j1.results
     /\ UNCHANGED <<elVars, convVars, retryVars>>

\* a request starts a run: the due records are selected
StartJob ==
  /\ jobPc \in {"idle", "responded"}
  /\ JobApply([JobCur EXCEPT !.jobPc = "fetching",
                             !.response = "none",
                             !.recPc = [r \in Records |-> "idle"],
                             !.listed = [r \in Records |-> {}],
                             !.results = [r \in Records |-> "none"]])

\* the select answers; each record's callback runs up to its list() request
FetchResponds(ok) ==
  /\ jobPc = "fetching"
  /\ IF ~ok
     THEN JobApply([JobCur EXCEPT !.jobPc = "responded", !.response = "failed"])
     ELSE IF \A r \in Records : ~inTable[r]
     THEN JobApply([JobCur EXCEPT !.jobPc = "responded", !.response = "nothing"])
     ELSE JobApply([JobCur EXCEPT
            !.jobPc = "processing",
            !.recPc = [r \in Records |-> IF inTable[r] THEN "listing" ELSE "idle"]])

\* storage.list(record.prefix) answers
ListResponds(r, ok) ==
  /\ recPc[r] = "listing"
  /\ IF ~ok
     THEN JobApply([JobCur EXCEPT !.recPc[r] = "done", !.results[r] = "error"])
     ELSE IF files[r] = {}
     THEN JobApply([JobCur EXCEPT !.recPc[r] = "deleting"])
     ELSE JobApply([JobCur EXCEPT !.recPc[r] = "removing", !.listed[r] = files[r]])

\* Mutation of RemoveResponds: the error of remove() is not looked at.
RemoveRespondsUnchecked(r, ok) ==
  /\ recPc[r] = "removing"
  /\ IF ok
     THEN JobApply([JobCur EXCEPT !.files[r] = @ \ listed[r], !.recPc[r] = "deleting"])
     ELSE JobApply([JobCur EXCEPT !.recPc[r] = "deleting"])

\* storage.remove(the listed files) answers
RemoveResponds(r, ok) ==
  /\ recPc[r] = "removing"
  /\ IF ok
     THEN JobApply([JobCur EXCEPT !.files[r] = @ \ listed[r], !.recPc[r] = "deleting"])
     ELSE JobApply([JobCur EXCEPT !.recPc[r] = "done", !.results[r] = "error"])

\* the delete of the cleanup record answers; its error is not looked at
RecordDeleteResponds(r, ok) ==
  /\ recPc[r] = "deleting"
  /\ JobApply([JobCur EXCEPT
        !.inTable[r] = IF ok THEN FALSE ELSE @,
        !.recPc[r] = "done",
        !.results[r] = IF listed[r] = {} THEN "nofiles" ELSE "cleaned"])

NextCleanup ==
  \/ StartJob
  \/ \E ok \in BOOLEAN : FetchResponds(ok)
  \/ \E r \in Records, ok \in BOOLEAN : ListResponds(r, ok)
  \/ \E r \in Records, ok \in BOOLEAN : RemoveResponds(r, ok)
  \/ \E r \in Records, ok \in BOOLEAN : RecordDeleteResponds(r, ok)

SpecCleanup == InitCleanup /\ [][NextCleanup]_vars

(* ---------------- the two services together ---------------- *)
Next == NextService \/ NextConv \/ NextTalk \/ NextRetry \/ NextCleanup

Spec == Init /\ [][Next]_vars

(* ======================= claims ======================= *)
Range(f) == {f[i] : i \in DOMAIN f}

DistinctIds(chunks) ==
  \A i, j \in DOMAIN chunks : i # j => chunks[i].eventId # chunks[j].eventId

\* the payloads of a set of chunks joined by ascending event id
RECURSIVE AscendingPayload(_)
AscendingPayload(S) ==
  IF S = {} THEN <<>>
  ELSE LET c == CHOOSE c \in S : \A d \in S : c.eventId <= d.eventId
       IN c.buffer \o AscendingPayload(S \ {c})

Pending == {c \in Calls : calls[c].state = "pending"}

\* C1: whatever the arrival order of a burst of chunks with distinct event ids,
\* the buffer emitted at flush is the payloads joined in ascending event-id order.
C1_FlushInEventIdOrder ==
  (lastFlush.arrival # <<>> /\ DistinctIds(lastFlush.arrival))
    => lastFlush.buffer = AscendingPayload(Range(lastFlush.arrival))

\* C1 witness: a burst that arrived out of order was flushed to a pending call.
C1_Witness ==
  /\ Len(lastFlush.arrival) >= 2
  /\ DistinctIds(lastFlush.arrival)
  /\ lastFlush.arrival[1].eventId > lastFlush.arrival[2].eventId
  /\ lastFlush.to # 0

\* C2 (as claimed): while a sendMessage call is pending, a later call is rejected
\* and never takes over the resolve/reject pair of the pending one.
C2_SecondCallRejected ==
  \A c1, c2 \in Calls :
    (c1 < c2 /\ calls[c1].state = "pending")
      => (calls[c2].state \in {"unused", "rejected"} /\ currentResolve # c2
          /\ currentReject # c2)

\* C3: a flush happens only when at least the quiet threshold has passed since the
\* last chunk and it empties the pending set (the same chunks are never flushed
\* twice); while chunks are pending a flush check is scheduled, and it is due at
\* the moment the threshold has passed (the chunks are never left unflushed).
C3_FlushAfterQuietPeriod ==
  /\ lastFlush.arrival # <<>>
       => (timeSinceLastChunk >= QuietThresholdMs /\ audioChunks = <<>>)
  /\ audioChunks # <<>>
       => /\ chunkTimeout # {}
          /\ timeSinceLastChunk >= QuietThresholdMs => chunkTimeout = {0}

\* C3 witness: the quiet period has passed and the pending chunks were flushed.
C3_Witness ==
  /\ lastFlush.arrival # <<>>
  /\ timeSinceLastChunk = QuietThresholdMs
  /\ audioChunks = <<>>
  /\ chunkTimeout = {}

GaveUp ==
  /\ reconnectAttempts >= maxReconnectAttempts
  /\ ~isReconnecting
  /\ delayed = 0
  /\ ws = 0
  /\ \A s \in Sockets : sock[s].readyState = "CLOSED"

\* C4: between two successful opens the service starts at most
\* maxReconnectAttempts reconnect attempts.
C4_BoundedReconnectAttempts == attemptsMade <= maxReconnectAttempts

\* C4 witness: three attempts were made, the last socket closed, nothing is scheduled.
C4_Witness == GaveUp /\ attemptsMade = maxReconnectAttempts

\* C5 (as claimed): once the reconnect budget is exhausted no sendMessage call is
\* left pending (it was rejected with the terminal error).
C5_ExhaustionRejectsPending == GaveUp => Pending = {}

\* C6 (as claimed): the close of a socket the caller closed (readyState CLOSING)
\* never starts a reconnect.
C6_NoReconnectAfterCallerClose ==
  [][\A s \in Sockets :
       (sock[s].readyState = "CLOSING" /\ sock'[s].readyState = "CLOSED")
         => (reconnectAttempts' <= reconnectAttempts /\ delayed' <= delayed)]_vars

\* C7 (as claimed): a call that was pending when clearConversation() ran is not
\* left pending with nothing that could still settle it (no response timer, no
\* socket, no reconnect in progress).
C7_ClearSettlesPending ==
  \A c \in Calls :
    (cleared /\ ~calls[c].afterClear /\ calls[c].state = "pending")
      => \/ c \in msgTimers
         \/ ws # 0
         \/ delayed > 0
         \/ \E s \in Sockets : sock[s].readyState # "CLOSED"

\* C8 (as claimed): a sendMessage call made after clearConversation() is never
\* sent on a new connection.
C8_SendAfterClearRejected ==
  \A c \in Calls : calls[c].afterClear => calls[c].state \notin {"pending", "resolved"}

\* C9 (as claimed): endConversation() called while no session is active returns null.
C9_NullWhenNoSession ==
  (lastEnd.pc = "done" /\ lastEnd.noSession) => lastEnd.result = "null"

\* C10 (as claimed): endConversation() called again after a call that returned a
\* result does not throw.
C10_SecondEndDoesNotThrow ==
  (lastEnd.pc = "done" /\ lastEnd.afterSuccess) => lastEnd.result # "threw"

SessionStarted == \E n \in Sessions : sdk[n] = "none" /\ sdk'[n] = "live"

\* C11: while an initialize() call is in progress no step starts another session,
\* and an initialize() call made then returns leaving the session object, the id,
\* the active flag, the transcript and the running call as they were.
C11_SecondInitializeIsNoOp ==
  [][initPc # "idle"
       => /\ ~SessionStarted
          /\ (initResult' = "returned" /\ initPc' = initPc)
               => UNCHANGED <<conversation, conversationId, isInitializing, isActive,
                              transcript, sdk, initSession>>]_vars

\* C11 witness: an initialize() call has just returned while the first one is
\* still waiting for its session.
C11_Witness == initPc = "starting" /\ initResult = "returned" /\ isInitializing

\* C12 (as claimed): while a session is active no step starts another remote
\* session, replaces the session object or resets the session id.
C12_InitializeWhileActiveFailsFast ==
  [][(isActive /\ conversation # 0 /\ conversationId # 0)
       => (SessionStarted => (conversationId' = conversationId /\ isActive'))]_vars

\* C13 (as claimed): a sendMessage call gets past its wait for the connection and
\* sends its message only on a socket on which the initiation metadata was received.
C13_ResolvesOnlyAfterAck ==
  [][\A c \in Calls :
       (calls[c].state # "pending" /\ calls'[c].state = "pending")
         => (ws' # 0 /\ sock'[ws'].acked)]_vars

\* C14 (as claimed): a pending sendMessage call always has something that will
\* settle it: its 30 s response timer is still scheduled, or chunks are buffered
\* whose flush will resolve it.
C14_PendingHasDeadline ==
  \A c \in Calls :
    calls[c].state = "pending"
      => \/ c \in msgTimers
         \/ (currentResolve = c /\ audioChunks # <<>> /\ chunkTimeout # {})

C15_WitnessKept ==
  /\ lastInterruption.call # 0
  /\ lastInterruption.buffered # <<>>
  /\ audioChunks = lastInterruption.buffered
  /\ calls[lastInterruption.call].state = "pending"

C17_FetchFailureDegrades ==
  (lastEnd.pc = "done" /\ lastEnd.fetchFailed) => lastEnd.result = "value"

\* C18: the n-th reconnect attempt since the last successful open waits
\* 1000 * 2^(n-1) ms capped at 5000 ms, and each attempt waits strictly longer
\* than the one before it.
C18_BackoffDelays ==
  \A n \in DOMAIN delays :
    /\ delays[n] = IF n = 1 THEN 1000 ELSE IF n = 2 THEN 2000 ELSE IF n = 3 THEN 4000 ELSE 5000
    /\ n > 1 => delays[n] > delays[n - 1]

\* C18 witness: three attempts were made in one episode.
C18_Witness == Len(delays) = maxReconnectAttempts /\ delayed > 0

\* C19 (as claimed): the error of one request leaves a later request servable:
\* the most recently sent request, while pending, still holds the resolve/reject
\* pair that the next audio burst or interruption will use.
C19_LaterRequestKeepsResolver ==
  \A c \in Calls :
    (calls[c].state = "pending" /\ \A d \in Calls : d > c => calls[d].state = "unused")
      => (currentResolve = c /\ currentReject = c)

\* C21: an audio chunk whose payload is empty or decodes to zero bytes is dropped
\* on arrival: every pending chunk has a non-empty buffer, and the time since the
\* last chunk restarts only in a step that appends one non-empty chunk to the
\* pending set.
C21_EmptyChunksRejected ==
  /\ [](\A i \in DOMAIN audioChunks : Len(audioChunks[i].buffer) > 0)
  /\ [][timeSinceLastChunk' < timeSinceLastChunk
         => /\ Len(audioChunks') = Len(audioChunks) + 1
            /\ SubSeq(audioChunks', 1, Len(audioChunks)) = audioChunks
            /\ Len(audioChunks'[Len(audioChunks')].buffer) > 0]_vars

\* C21 witness: the pending request has lost its message timer to an audio event
\* that left nothing pending and did not restart the quiet period.
C21_Witness ==
  /\ currentResolve # 0
  /\ calls[currentResolve].state = "pending"
  /\ messageTimeout = 0
  /\ currentResolve \notin msgTimers
  /\ audioChunks = <<>>
  /\ timeSinceLastChunk > 0

\* C22 (as claimed): a ping received on an open channel is answered with exactly
\* one pong, sent on that channel and carrying the ping's event id (any id is
\* accepted here for a ping that has none).
C22_PingAnsweredOnce ==
  (lastPing.sock # 0 /\ lastPing.open)
    => /\ Len(lastPing.pongs) = 1
       /\ lastPing.pongs[1].sock = lastPing.sock
       /\ lastPing.event_id # NoEventId => lastPing.pongs[1].event_id = lastPing.event_id

\* The transcript read as lines: each line is a speaker tag, that speaker's text
\* and a line end; the line of a user turn still in progress may end the text.
RECURSIVE TaggedLines(_)
TaggedLines(t) ==
  IF t = <<>> \/ t = <<"User: ">> THEN TRUE
  ELSE /\ Len(t) >= 3
       /\ \/ t[1] = "AI: " /\ t[2] \in MessageTexts
          \/ t[1] = "User: " /\ t[2] \in SpeechTexts
       /\ t[3] = "\n"
       /\ TaggedLines(SubSeq(t, 4, Len(t)))

\* C23 (as claimed): the stored transcript is always a sequence of lines
\* "<Speaker>: <text>", every line holding exactly one speaker tag followed by
\* that speaker's text.
C23_TranscriptIsTaggedLines == TaggedLines(transcript)

\* The utterances appended in the user turn that starts at position i (position
\* 0: before the first "User: " tag) and lasts until the next "User: " tag.
UtterancesOfTurn(i) ==
  {j \in DOMAIN transcript :
     /\ j > i
     /\ transcript[j] \in SpeechTexts
     /\ \A k \in (i + 1)..j : transcript[k] # "User: "}

TurnStarts == {0} \cup {i \in DOMAIN transcript : transcript[i] = "User: "}

\* C24 (as claimed): within one user turn a recognized utterance is appended to
\* the live transcript at most once.
C24_UtteranceAppendedOnce ==
  \A i \in TurnStarts : Cardinality(UtterancesOfTurn(i)) <= 1

\* C28 (as claimed): the paused flag describes the current session: when a new
\* session becomes the current conversation the flag is false, and while there is
\* no conversation pause() and resume() leave the flag alone.
C28_PausedFlagOfCurrentSession ==
  [][/\ (conversation = 0 /\ conversation' # 0) => ~isPaused'
     /\ (conversation = 0 /\ conversation' = 0) => isPaused' = isPaused]_vars

\* C25 (as claimed): the audio delivered to a sendMessage call consists of chunks
\* that arrived after the call sent its message. Every audio event clears the
\* stored message timer, so a request whose timer handle is still stored has
\* received no audio event yet: no flush resolves such a request.
C25_OnlyOwnChunksDelivered ==
  [][\A c \in Calls :
       (calls[c].state = "pending" /\ messageTimeout = c) => lastFlush'.to # c]_vars

\* C26 (as claimed): the service holds at most one live WebSocket and the close
\* of an older socket never clears the reference to a newer one: every socket
\* that is connecting or open is the one this.ws refers to.
C26_SingleLiveSocket ==
  \A s \in Sockets : sock[s].readyState \in {"CONNECTING", "OPEN"} => ws = s

C30_BoundedRetries ==
  /\ Len(opLog) <= retryCount
  /\ \A i \in DOMAIN opLog :
        i < Len(opLog) => (opLog[i] # Success /\ ~(opLog[i].kind = "axios"
                                                  /\ opLog[i].status \in 1..499))
  /\ \A i \in DOMAIN waits : waits[i] = retryDelay * i
  /\ retryPc = "calling" => Len(waits) = Len(opLog) /\ attempt = Len(opLog) + 1
  /\ retryPc = "waiting" => Len(waits) = Len(opLog) /\ Len(opLog) < retryCount
  /\ retryPc = "returned" => opLog[Len(opLog)] = Success
  /\ retryPc = "threw" =>
        /\ opLog[Len(opLog)] # Success
        /\ lastError = opLog[Len(opLog)]
        /\ Len(opLog) = retryCount \/ opLog[Len(opLog)].status \in 1..499
  /\ (Len(opLog) = retryCount /\ opLog[retryCount] # Success) => retryPc = "threw"

\* C30 witness: three attempts failed with retryable errors, the call slept
\* 1000 ms and 2000 ms between them and threw.
C30_Witness ==
  /\ retryPc = "threw"
  /\ Len(opLog) = retryCount
  /\ waits = <<1000, 2000>>

\* C30 witness: a client error ended the call at its first attempt.
C30_WitnessClientError ==
  /\ retryPc = "threw"
  /\ opLog = <<AxiosError(404)>>
  /\ waits = <<>>

\* C29: a cleanup record is deleted only when no file is left under its prefix
\* (all were removed or none were found); a record whose listing or removal
\* failed is kept; and a run that completes has processed every due record,
\* whatever happened to the others.
C29_RecordDeletedAfterFiles ==
  \A r \in Records :
    /\ (recPc[r] = "deleting" \/ ~inTable[r]) => files[r] = {}
    /\ results[r] = "error" => (inTable[r] /\ recPc[r] = "done")
    /\ (response = "completed" /\ inTable[r]) => results[r] # "none"

\* C29 witness: in one completed run the first record failed and was kept while
\* the second record's files were removed and the record deleted.
C29_Witness ==
  /\ response = "completed"
  /\ results[1] = "error" /\ inTable[1] /\ files[1] # {}
  /\ results[2] = "cleaned" /\ ~inTable[2] /\ files[2] = {}

====
